---- MODULE Spec2Model ----
(***************************************************************************)
(* Scan orchestration of automaton-sec: the HTTP handlers that start a     *)
(* background TriggerScan / RetryScan, the Service, the tool Runner, the   *)
(* artifact store and the security_scans table.                            *)
(***************************************************************************)
EXTENDS Integers, Sequences, FiniteSets, TLC

\* ---------------------------------------------------------------- bounds
MaxCalls == 2
MaxClock == 1
MaxExit  == 2
MaxMarkers == 3
MaxResults == 3
MaxLines   == 4
MaxItems   == 2
MaxRows    == 3
MaxLimit   == 2
MaxPageTime == 3
PerSecond  == 2

Calls     == 1..MaxCalls
Times     == 1..(MaxClock + 1)
\* -1 is what ExitCode() gives for a process killed by a signal, as it is when
\* the context of exec.CommandContext is cancelled
ExitCodes == -1..MaxExit

\* -------------------------------------------------------------- constants
ToolSQLMap   == "sqlmap"
ToolTrivy    == "trivy"
ToolGitleaks == "gitleaks"
ToolZAP      == "zap"
ToolNuclei   == "nuclei"

StatusSuccess == "success"
StatusFailed  == "failed"
StatusError   == "error"
StatusRunning == "running"

Terminal == {StatusSuccess, StatusFailed, StatusError}

Tenants == {"acme", "globex"}

\* the tool names Run is called with: the five it knows, and an empty one
Tools == {ToolSQLMap, ToolTrivy, ToolGitleaks, ToolZAP, ToolNuclei, ""}

\* the tools of the request bodies sent to the webhook: one with a
\* "findings" exit code, one without, and a body with no tool
RequestTools == {ToolTrivy, ToolGitleaks, ""}

\* SeverityCounts value object
SeverityCounts(c, h, m, l, t) ==
    [critical |-> c, high |-> h, medium |-> m, low |-> l, total |-> t]

ZeroCounts == SeverityCounts(0, 0, 0, 0, 0)

\* TriggerScanCommand built by the handler from the request body
TriggerScanCommand(tenant, tool) ==
    [TenantID |-> tenant, Tool |-> tool, Mode |-> "url",
     Image |-> "img", Path |-> "src", Target |-> "url",
     Source |-> "ci", CommitSHA |-> "c0ffee", Branch |-> "main"]

\* ------------------------------------------------------------- repository
\* stringOrDash returns "-" when the input is empty
stringOrDash(s) == IF s = "" THEN "-" ELSE s

\* the columns Save writes on INSERT (there is no path column)
Row(s) ==
    [id |-> s.ID, tenant_id |-> stringOrDash(s.TenantID),
     triggered_at |-> s.TriggeredAt, tool |-> stringOrDash(s.Tool),
     target |-> s.Target, image |-> s.Image,
     status |-> stringOrDash(s.Status), counts |-> s.Counts,
     artifact_url |-> s.ArtifactURL, raw_format |-> s.RawFormat,
     duration_ms |-> s.DurationMS, source |-> s.Source,
     commit_sha |-> s.CommitSHA, branch |-> s.Branch]

\* Save as a plain UPDATE: a scan with a new id is not inserted
SaveUpdateOnly(table, s) ==
    IF s.ID \in DOMAIN table
    THEN [table EXCEPT ![s.ID] =
            [@ EXCEPT !.status = stringOrDash(s.Status),
                      !.counts = s.Counts,
                      !.artifact_url = s.ArtifactURL,
                      !.raw_format = s.RawFormat,
                      !.duration_ms = s.DurationMS]]
    ELSE table

\* Save whose ON DUPLICATE KEY UPDATE list leaves out the count columns
SaveKeepsCounts(table, s) ==
    IF s.ID \in DOMAIN table
    THEN [table EXCEPT ![s.ID] =
            [@ EXCEPT !.status = stringOrDash(s.Status),
                      !.artifact_url = s.ArtifactURL,
                      !.raw_format = s.RawFormat,
                      !.duration_ms = s.DurationMS]]
    ELSE [i \in DOMAIN table \cup {s.ID} |->
            IF i = s.ID THEN Row(s) ELSE table[i]]

\* Save whose ON DUPLICATE KEY UPDATE list leaves out artifact_url
SaveKeepsURL(table, s) ==
    IF s.ID \in DOMAIN table
    THEN [table EXCEPT ![s.ID] =
            [@ EXCEPT !.status = stringOrDash(s.Status),
                      !.counts = s.Counts,
                      !.raw_format = s.RawFormat,
                      !.duration_ms = s.DurationMS]]
    ELSE [i \in DOMAIN table \cup {s.ID} |->
            IF i = s.ID THEN Row(s) ELSE table[i]]

\* Save as INSERT IGNORE: an existing row is left as it is
SaveInsertIgnore(table, s) ==
    IF s.ID \in DOMAIN table
    THEN table
    ELSE [i \in DOMAIN table \cup {s.ID} |->
            IF i = s.ID THEN Row(s) ELSE table[i]]

\* Save: INSERT ... ON DUPLICATE KEY UPDATE of the result columns only
Save(table, s) ==
    IF s.ID \in DOMAIN table
    THEN [table EXCEPT ![s.ID] =
            [@ EXCEPT !.status = stringOrDash(s.Status),
                      !.counts = s.Counts,
                      !.artifact_url = s.ArtifactURL,
                      !.raw_format = s.RawFormat,
                      !.duration_ms = s.DurationMS]]
    ELSE [i \in DOMAIN table \cup {s.ID} |->
            IF i = s.ID THEN Row(s) ELSE table[i]]

\* Get whose WHERE clause leaves out the tenant
FoundAnyTenant(table, tenant, id) == id \in DOMAIN table

\* Get: SELECT ... WHERE tenant_id=? AND id=?  (no row is sql.ErrNoRows)
Found(table, tenant, id) ==
    id \in DOMAIN table /\ table[id].tenant_id = tenant

Get(table, tenant, id) ==
    LET r == table[id] IN
    [ID |-> r.id, TenantID |-> r.tenant_id, TriggeredAt |-> r.triggered_at,
     Tool |-> r.tool, Target |-> r.target, Image |-> r.image, Path |-> "",
     Status |-> r.status, Counts |-> r.counts,
     ArtifactURL |-> r.artifact_url, RawFormat |-> r.raw_format,
     DurationMS |-> r.duration_ms, Source |-> r.source,
     CommitSHA |-> r.commit_sha, Branch |-> r.branch]

\* Latest / Cursor: the rows SELECT ... WHERE tenant_id=? chooses from,
\* before ORDER BY and LIMIT
Latest(table, tenant) ==
    {Get(table, tenant, i) : i \in {j \in DOMAIN table : table[j].tenant_id = tenant}}

\* the latest row of the whole table, with the WHERE tenant_id=? left out
LatestOfAnyTenant(table, tenant) ==
    {i \in DOMAIN table :
        \A j \in DOMAIN table : table[j].triggered_at <= table[i].triggered_at}

\* the rows UPDATE ... WHERE tenant_id=? ORDER BY triggered_at DESC LIMIT 1
\* may pick: any row of the tenant with the greatest triggered_at
LatestOf(table, tenant) ==
    {i \in DOMAIN table :
        /\ table[i].tenant_id = tenant
        /\ \A j \in DOMAIN table :
              table[j].tenant_id = tenant
                  => table[j].triggered_at <= table[i].triggered_at}

\* UpdateStatus: sets the status of the tenant's latest row
UpdateStatus(table, tenant, status, pick) ==
    IF pick \in LatestOf(table, tenant)
    THEN [table EXCEPT ![pick].status = status]
    ELSE table

\* UpdateResult: UPDATE ... SET status, counts, artifact_url
\*               WHERE tenant_id=? AND id=?
UpdateResult(table, tenant, id, status, artifactURL, counts) ==
    IF Found(table, tenant, id)
    THEN [table EXCEPT ![id] = [@ EXCEPT !.status = status,
                                         !.counts = counts,
                                         !.artifact_url = artifactURL]]
    ELSE table

\* ------------------------------------------------------------------ runner
Supported == {ToolSQLMap, ToolTrivy, ToolGitleaks, ToolZAP, ToolNuclei}

\* rawFormat := "json", overridden for trivy and zap
RawFormatOf(tool) ==
    IF tool = ToolTrivy THEN "sarif" ELSE IF tool = ToolZAP THEN "html" ELSE "json"

\* artifactPath: ./temp/{tool}-{UnixNano}.{ext}; the extension is fixed by
\* the tool, so the pair identifies the file
ArtifactPath(tool, nano) == <<tool, nano>>

NoPath == << >>

\* the findings codes with ZAP's taken to be 1 like the other two
FindingsExitAllOne(tool, exitCode) ==
    \/ tool = ToolTrivy /\ exitCode = 1
    \/ tool = ToolZAP /\ exitCode = 1
    \/ tool = ToolNuclei /\ exitCode = 1

\* Trivy (1), ZAP (2) or Nuclei (1) mean findings, not failure
FindingsExit(tool, exitCode) ==
    \/ tool = ToolTrivy /\ exitCode = 1
    \/ tool = ToolZAP /\ exitCode = 2
    \/ tool = ToolNuclei /\ exitCode = 1

\* what cmd.CombinedOutput() reports: spawned = FALSE is an error that is
\* not an *exec.ExitError (binary not found), otherwise the exit code
ProcExitCode(spawned, code) == IF spawned THEN code ELSE 0

\* TRUE when Run goes on to the artifact check, FALSE when it returns
\* "run error"
ExitAccepted(tool, spawned, code) ==
    LET err      == ~spawned \/ code # 0
        exitCode == ProcExitCode(spawned, code)
    IN  ~err \/ FindingsExit(tool, exitCode)

\* the report files a tool can leave behind, by what the normalizer makes
\* of them: well-formed reports with their counts, and a malformed one
Artifacts ==
    {[ok |-> TRUE,  counts |-> ZeroCounts],
     [ok |-> TRUE,  counts |-> SeverityCounts(1, 2, 0, 0, 3)],
     [ok |-> FALSE, counts |-> ZeroCounts]}

\* ParseSeverityCounts: dispatch by tool; an unknown tool gives zero counts
\* without error
ParseSeverityCounts(tool, content) ==
    IF tool \notin Supported THEN [counts |-> ZeroCounts, err |-> FALSE]
    ELSE IF content.ok THEN [counts |-> content.counts, err |-> FALSE]
    ELSE [counts |-> ZeroCounts, err |-> TRUE]

\* ./temp, made by Run before it looks at the tool
TempDir == <<"temp", 0>>

\* zapHome: {dir of the artifact}/zap-{UnixNano}
ZapHome(nano) == <<"zap", nano>>

\* os.MkdirAll: the directory exists afterwards
MkdirAll(ds, d) == ds \cup {d}

\* a deferred removal that removes nothing
RemoveAllNothing(ds, d) == ds

\* the deferred os.RemoveAll(zapHome): the directory is gone afterwards
RemoveAll(ds, d) == ds \ {d}

\* the errors Run returns ("" is nil)
ErrUnsupported == "unsupported tool"
ErrRun         == "run error"
ErrNoOutput    == "output file not created"

NoResult ==
    [Counts |-> ZeroCounts, LocalArtifactPath |-> NoPath, RawFormat |-> "",
     ExitCode |-> 0, DurationMS |-> 0]

\* a tail of Run that returns the error of ParseSeverityCounts
RunOutcomeParseFatal(tool, path, spawned, code, disk, duration) ==
    IF ~ExitAccepted(tool, spawned, code)
    THEN [err |-> ErrRun, res |-> NoResult]
    ELSE IF path \notin DOMAIN disk
    THEN [err |-> ErrNoOutput, res |-> NoResult]
    ELSE IF ParseSeverityCounts(tool, disk[path].content).err
    THEN [err |-> "parse error", res |-> NoResult]
    ELSE [err |-> "",
          res |-> [Counts |-> ParseSeverityCounts(tool, disk[path].content).counts,
                   LocalArtifactPath |-> path,
                   RawFormat |-> RawFormatOf(tool),
                   ExitCode |-> ProcExitCode(spawned, code),
                   DurationMS |-> duration]]

\* the tail of Run, after the process has ended: classify the exit code,
\* check the artifact exists, parse it
RunOutcome(tool, path, spawned, code, disk, duration) ==
    IF ~ExitAccepted(tool, spawned, code)
    THEN [err |-> ErrRun, res |-> NoResult]
    ELSE IF path \notin DOMAIN disk
    THEN [err |-> ErrNoOutput, res |-> NoResult]
    ELSE [err |-> "",
          res |-> [Counts |-> ParseSeverityCounts(tool, disk[path].content).counts,
                   LocalArtifactPath |-> path,
                   RawFormat |-> RawFormatOf(tool),
                   ExitCode |-> ProcExitCode(spawned, code),
                   DurationMS |-> duration]]

\* ----------------------------------------------------------- artifact store
NoURL == << >>

\* key := "{tenant}/{tool}/{basename}"
ArtifactKey(tenant, tool, path) == <<tenant, tool, path>>

\* url := "http://{host}/{bucket}/{key}"
URLOf(key) == <<"http", key>>

\* a removal that leaves every file where it is
RemoveNothing(disk, path) == disk

\* os.Remove: the file goes away unless the removal fails
Remove(disk, path) ==
    IF path \in DOMAIN disk /\ disk[path].removable
    THEN [p \in DOMAIN disk \ {path} |-> disk[p]]
    ELSE disk

\* Store.Upload: os.Open, FPutObject
Upload(disk, bucket, path, key, netOk) ==
    IF path \notin DOMAIN disk \/ ~netOk
    THEN [err |-> TRUE, url |-> NoURL, bucket |-> bucket]
    ELSE [err |-> FALSE, url |-> URLOf(key), bucket |-> bucket \cup {key}]

\* UploadAndCleanup that removes the local file whatever Upload returned
UploadAndCleanupAlways(disk, bucket, path, key, netOk) ==
    LET up == Upload(disk, bucket, path, key, netOk) IN
    [err |-> up.err, url |-> up.url, bucket |-> up.bucket,
     disk |-> Remove(disk, path)]

\* Store.UploadAndCleanup: Upload, then os.Remove only after a successful
\* upload; a failed removal is printed, not returned
UploadAndCleanup(disk, bucket, path, key, netOk) ==
    LET up == Upload(disk, bucket, path, key, netOk) IN
    IF up.err
    THEN [err |-> TRUE, url |-> NoURL, bucket |-> up.bucket, disk |-> disk]
    ELSE [err |-> FALSE, url |-> up.url, bucket |-> up.bucket,
          disk |-> Remove(disk, path)]

\* ----------------------------------------------------------------- service
\* statusFromExit
statusFromExit(code) == IF code = 0 THEN StatusSuccess ELSE StatusFailed

NoScan ==
    [ID |-> 0, TenantID |-> "", TriggeredAt |-> 0, Tool |-> "", Target |-> "",
     Image |-> "", Path |-> "", Status |-> "", Counts |-> ZeroCounts,
     ArtifactURL |-> NoURL, RawFormat |-> "", DurationMS |-> 0,
     Source |-> "", CommitSHA |-> "", Branch |-> ""]

NoRequest == [Tool |-> "", Mode |-> "", Image |-> "", Path |-> "", Target |-> ""]

\* TriggerScanResult{} and the partially filled results of the error returns
TriggerScanResult(id, status) ==
    [ID |-> id, Status |-> status, Counts |-> ZeroCounts,
     ArtifactURL |-> NoURL, RawFormat |-> "", DurationMS |-> 0]

ResultOf(scan) ==
    [ID |-> scan.ID, Status |-> scan.Status, Counts |-> scan.Counts,
     ArtifactURL |-> scan.ArtifactURL, RawFormat |-> scan.RawFormat,
     DurationMS |-> scan.DurationMS]

\* -------------------------------------------------------------- normalizer
\* strings.ToLower, on the strings a report is made of here
ToLower(str) ==
    CASE str = "High" -> "high"
      [] str = "Warning" -> "warning"
      [] str = "CRITICAL" -> "critical"
      [] str = "Vulnerable" -> "vulnerable"
      [] OTHER -> str

\* ---- the HTML report, by the places the regular expressions can match:
\* "risk: {level}" labels, class="risk-{level}" / class="severity-{level}"
\* attributes, "risk level: {level}" texts, and text that matches none
ZapLevels == {"high", "High", "medium", "low", "informational", "info"}

ZapMarkers ==
    {[kind |-> k, level |-> l] : k \in {"label", "class", "text"}, l \in ZapLevels}
        \cup {[kind |-> "other", level |-> ""]}

\* len(rx.FindAll...(s, -1)) for the markers of one kind and some levels
MatchCount(doc, kind, levels) ==
    Cardinality({i \in DOMAIN doc : doc[i].kind = kind /\ doc[i].level \in levels})

\* parseZAPHTML: lower-case the document, count the labels; when there are
\* none, count the class markers and the "risk level" texts into one result
parseZAPHTML(html) ==
    LET doc == [i \in DOMAIN html |->
                   [kind |-> html[i].kind, level |-> ToLower(html[i].level)]]
        N(kind, levels) == MatchCount(doc, kind, levels)
        high   == N("label", {"high"})
        medium == N("label", {"medium"})
        low    == N("label", {"low"})
        info   == N("label", {"informational", "info"})
        c      == SeverityCounts(0, high, medium, low + info,
                                 high + medium + low + info)
        fHigh  == N("class", {"high"}) + N("text", {"high"})
        fMed   == N("class", {"medium"}) + N("text", {"medium"})
        fLow   == N("class", {"low", "informational", "info"})
                    + N("text", {"low", "informational", "info"})
        f      == SeverityCounts(0, fHigh, fMed, fLow, fHigh + fMed + fLow)
    IN IF c.total = 0 /\ f.total > 0 THEN f ELSE c

\* ---- the SARIF report: runs of results, a result having a level and a
\* property map in which "severity" and "Severity" may be missing, may hold
\* something that is not a string, or hold a string
Absent  == [present |-> FALSE, isText |-> FALSE, str |-> ""]
NonText == [present |-> TRUE, isText |-> FALSE, str |-> ""]
Text(str) == [present |-> TRUE, isText |-> TRUE, str |-> str]

SarifLevels == {"error", "Warning", "note", "none"}

SarifResults ==
    {[level |-> l, properties |-> [severity |-> v, Severity |-> w],
      valid |-> TRUE] :
        l \in SarifLevels,
        v \in {Absent, NonText, Text("CRITICAL"), Text("unknown"), Text("")},
        w \in {Absent, Text("medium")}}

\* a result json.Unmarshal cannot put into the struct (a level that is not a
\* string, a result that is not an object)
SarifBadResult ==
    [level |-> "", properties |-> [severity |-> Absent, Severity |-> Absent],
     valid |-> FALSE]

\* a document of two runs: the results up to k, and the rest
SarifDoc(rs, k) == <<SubSeq(rs, 1, k), SubSeq(rs, k + 1, Len(rs))>>

\* switch strings.ToLower(r.Level)
LevelSeverity(level) ==
    CASE level = "error" -> "high"
      [] level = "warning" -> "medium"
      [] level = "note" -> "low"
      [] OTHER -> ""

\* the severity of one result: properties["severity"] when the key is there,
\* else properties["Severity"], taken only when it is a string; the level
\* decides when that left sev empty
SeverityOf(r) ==
    LET p   == r.properties
        sev == IF p.severity.present
               THEN IF p.severity.isText THEN ToLower(p.severity.str) ELSE ""
               ELSE IF p.Severity.present
               THEN IF p.Severity.isText THEN ToLower(p.Severity.str) ELSE ""
               ELSE ""
    IN IF sev = "" THEN LevelSeverity(ToLower(r.level)) ELSE sev

\* parseTrivySARIF: every result of every run adds one to total and one to
\* the bucket of its severity, if it has one
parseTrivySARIF(doc) ==
    LET ix == {<<r, i>> : r \in DOMAIN doc, i \in 1..MaxResults}
        Results == {x \in ix : x[2] \in DOMAIN doc[x[1]]}
        N(sev) == Cardinality({x \in Results : SeverityOf(doc[x[1]][x[2]]) = sev})
    IN SeverityCounts(N("critical"), N("high"), N("medium"), N("low"),
                      Cardinality(Results))

\* json.Unmarshal(f, &doc) succeeds: every result fits the struct
SarifDecodes(doc) ==
    \A r \in DOMAIN doc : \A i \in DOMAIN doc[r] : doc[r][i].valid

\* ---- the line-delimited JSON report, line by line: an empty line, a line
\* json.Unmarshal rejects (not JSON, or a severity that is not a string), a
\* finding with its info.severity ("" when it has none), and a line longer
\* than the 64 KiB a bufio.Scanner takes
NucleiSeverities ==
    {"critical", "High", "medium", "low", "info", "informational", "unknown", ""}

NucleiLines ==
    {[kind |-> "finding", severity |-> v] : v \in NucleiSeverities}
        \cup {[kind |-> k, severity |-> ""] : k \in {"blank", "malformed", "toolong"}}

\* s.Scan() stops at a line that is too long and s.Err() reports it
ScanFails(lines) == \E i \in DOMAIN lines : lines[i].kind = "toolong"

\* parseNucleiJSONL: the lines that are findings add one to total each and
\* one to the bucket of their lower-cased severity, info and informational
\* being low; empty and rejected lines are passed over
parseNucleiJSONL(lines) ==
    LET N(sevs) == Cardinality({i \in DOMAIN lines :
                       /\ lines[i].kind = "finding"
                       /\ ToLower(lines[i].severity) \in sevs})
        total == Cardinality({i \in DOMAIN lines : lines[i].kind = "finding"})
    IN SeverityCounts(N({"critical"}), N({"high"}), N({"medium"}),
                      N({"low"}) + N({"info", "informational"}), total)

\* ---- the JSON array of the secret scanner: objects, and elements that are
\* no objects
GitleaksElements == {[kind |-> "object"], [kind |-> "scalar"]}

\* json.Unmarshal(f, &arr) into []map[string]any
GitleaksDecodes(arr) == \A i \in DOMAIN arr : arr[i].kind = "object"

\* the array length counted as high findings
parseGitleaksJSONAsHigh(arr) == SeverityCounts(0, Len(arr), 0, 0, Len(arr))

\* parseGitleaksJSON: total is the length of the array
parseGitleaksJSON(arr) == SeverityCounts(0, 0, 0, 0, Len(arr))

\* ---- the JSON object of sqlmap: "vulnerabilities" and "results" may be
\* missing, be no array, or be an array (of n elements, of items)
NoArray == [present |-> FALSE, isArray |-> FALSE, len |-> 0]
NotArray == [present |-> TRUE, isArray |-> FALSE, len |-> 0]
ArrayOf(n) == [present |-> TRUE, isArray |-> TRUE, len |-> n]

SQLMapArrays == {NoArray, NotArray} \cup {ArrayOf(n) : n \in 0..MaxItems}

\* an element of "results": not an object, or an object with its
\* "vulnerabilities" and its "status"
SQLMapItems ==
    {[isMap |-> TRUE, vulnerabilities |-> v, status |-> st] :
        v \in SQLMapArrays,
        st \in {Absent, NonText, Text("injection possible"), Text("Vulnerable"),
                Text("not injectable")}}
        \cup {[isMap |-> FALSE, vulnerabilities |-> NoArray, status |-> Absent]}

\* strings.Contains(s, "possible") || strings.Contains(s, "vulnerable")
SaysInjectable(str) == str \in {"injection possible", "vulnerable"}

\* what one element of "results" adds to high and total
SQLMapItemCount(it) ==
    IF ~it.isMap THEN 0
    ELSE IF it.vulnerabilities.present /\ it.vulnerabilities.isArray
    THEN it.vulnerabilities.len
    ELSE IF it.status.present /\ it.status.isText
              /\ SaysInjectable(ToLower(it.status.str))
    THEN 1
    ELSE 0

\* parseSQLMapJSON: the top-level vulnerabilities and what the results add,
\* all of it high
parseSQLMapJSON(doc) ==
    LET top == IF doc.vulnerabilities.present /\ doc.vulnerabilities.isArray
               THEN doc.vulnerabilities.len ELSE 0
        Sum[i \in 0..Len(doc.items)] ==
            IF i = 0 THEN 0 ELSE Sum[i - 1] + SQLMapItemCount(doc.items[i])
        nested == IF doc.results.present /\ doc.results.isArray
                  THEN Sum[Len(doc.items)] ELSE 0
    IN SeverityCounts(0, top + nested, 0, 0, top + nested)

\* what a parser returns
Parsed(counts) == [counts |-> counts, err |-> FALSE]
ParseFailed == [counts |-> ZeroCounts, err |-> TRUE]

\* ParseSeverityCounts on a report: the file may be unreadable, the JSON of
\* it may not decode; a tool without parser gives zero counts and no error
ParseReport(tool, report) ==
    IF tool = ToolNuclei
    THEN IF ~report.readable \/ ScanFails(report.input)
         THEN ParseFailed ELSE Parsed(parseNucleiJSONL(report.input))
    ELSE IF tool = ToolTrivy
    THEN IF ~report.readable \/ ~report.wellFormed \/ ~SarifDecodes(report.input)
         THEN ParseFailed ELSE Parsed(parseTrivySARIF(report.input))
    ELSE IF tool = ToolGitleaks
    THEN IF ~report.readable \/ ~report.wellFormed \/ ~GitleaksDecodes(report.input)
         THEN ParseFailed ELSE Parsed(parseGitleaksJSON(report.input))
    ELSE IF tool = ToolSQLMap
    THEN IF ~report.readable \/ ~report.wellFormed
         THEN ParseFailed ELSE Parsed(parseSQLMapJSON(report.input))
    ELSE IF tool = ToolZAP
    THEN IF ~report.readable
         THEN ParseFailed ELSE Parsed(parseZAPHTML(report.input))
    ELSE Parsed(ZeroCounts)

\* no report has been handed to the normalizer; readable tells whether the
\* file can be opened, wellFormed whether its top level is the JSON value the
\* parser decodes
NoParse == [parser |-> "", input |-> << >>, readable |-> TRUE,
            wellFormed |-> TRUE, counts |-> ZeroCounts,
            err |-> FALSE, done |-> FALSE]

\* ------------------------------------------------------------------ paging
\* trigger times are counted in parts of a second, PerSecond to the second
PageTimes == 0..MaxPageTime

\* t.Format(time.RFC3339): the text has whole seconds only
FormatRFC3339(t) == t \div PerSecond

\* time.Parse(time.RFC3339, text)
ParseRFC3339(text) == text * PerSecond

\* limit <= 0 becomes 20
DefaultLimit == 20
Limit(n) == IF n <= 0 THEN DefaultLimit ELSE n

\* the first k of n
AtMost(k, n) == IF n < k THEN n ELSE k

\* Repo.Latest with a limit: ORDER BY triggered_at DESC LIMIT ?; rows of
\* equal triggered_at come in whatever order the database takes them
LatestPages(table, tenant, limit) ==
    LET rows == Latest(table, tenant)
        k    == AtMost(Limit(limit), Cardinality(rows))
    IN {list \in [1..k -> rows] :
          /\ \A i \in 1..k : \A j \in 1..k :
                i < j => /\ list[i] # list[j]
                         /\ list[i].TriggeredAt >= list[j].TriggeredAt
          /\ \A r \in rows \ {list[i] : i \in 1..k} :
                \A i \in 1..k : r.TriggeredAt <= list[i].TriggeredAt}

\* triggered_at < ? OR (triggered_at = ? AND id < ?)
Before(r, cursorTime, cursorID) ==
    \/ r.TriggeredAt < cursorTime
    \/ r.TriggeredAt = cursorTime /\ r.ID < cursorID

\* Repo.Cursor: the rows before the cursor,
\* ORDER BY triggered_at DESC, id DESC LIMIT ?
Cursor(table, tenant, cursorTime, cursorID, pageSize) ==
    LET rows == {r \in Latest(table, tenant) : Before(r, cursorTime, cursorID)}
        k    == AtMost(Limit(pageSize), Cardinality(rows))
    IN CHOOSE list \in [1..k -> rows] :
          /\ \A i \in 1..k : \A j \in 1..k :
                i < j => Before(list[j], list[i].TriggeredAt, list[i].ID)
          /\ \A r \in rows \ {list[i] : i \in 1..k} :
                \A i \in 1..k : Before(r, list[i].TriggeredAt, list[i].ID)

\* nobody is paging; seen are the ids of the scans the pages have shown
NoPage == [pc |-> "none", tenant |-> "", limit |-> 0, cursor_time |-> 0,
           cursor_id |-> 0, seen |-> << >>]

\* handleLatest's response to the list, and the client after it: a full
\* page carries next_cursor, made of the last item, and the client follows
\* it; a shorter page ends the paging
Respond(p, list) ==
    LET n    == Len(list)
        seen == p.seen \o [i \in 1..n |-> list[i].ID]
    IN IF n = Limit(p.limit)
       THEN [p EXCEPT !.pc = "next", !.seen = seen,
                      !.cursor_time = FormatRFC3339(list[n].TriggeredAt),
                      !.cursor_id = list[n].ID]
       ELSE [p EXCEPT !.pc = "end", !.seen = seen]

\* ------------------------------------------------------------------- state
VARIABLES
    repo,     \* security_scans: id -> row
    files,    \* ./temp: artifact path -> [content, removable]
    objects,  \* keys stored in the bucket
    clock,    \* time.Now()
    calls,    \* the background goroutines of the handlers, and direct Runs
    dirs,     \* the directories that exist: ./temp and the ZAP homes in it
    parse,    \* a report handed to the normalizer, and what it returned
    page      \* a client paging through GET /v1/{tenant}/scans/latest

vars == <<repo, files, objects, clock, calls, dirs, parse, page>>

NoProc == [spawned |-> TRUE, code |-> 0, wrote |-> FALSE]

\* a goroutine's locals: scan is the Scan it works on (initial / existing),
\* req the RunRequest, path and start Run's locals, proc what the process of
\* a direct Run did, rerr and res what Run returned, url the upload's URL,
\* ret and err what TriggerScan / RetryScan returned, invoked the ports used,
\* home the zapHome of a Run of ZAP
IdleCall ==
    [kind |-> "none", pc |-> "idle", tenant |-> "", id |-> 0, mode |-> "",
     scan |-> NoScan, req |-> NoRequest, path |-> NoPath, start |-> 0,
     home |-> NoPath,
     proc |-> NoProc, rerr |-> "", res |-> NoResult, url |-> NoURL,
     ret |-> TriggerScanResult(0, ""), err |-> "", invoked |-> {}]

\* a goroutine that has ended keeps nothing
DoneCall == [IdleCall EXCEPT !.pc = "done"]

Init ==
    /\ repo = [i \in {} |-> 0]
    /\ files = [p \in {} |-> 0]
    /\ objects = {}
    /\ clock = 1
    /\ calls = [c \in Calls |-> IdleCall]
    /\ dirs = {}
    /\ parse = NoParse
    /\ page = NoPage

\* requests are numbered in the order their goroutines start
Startable(c) ==
    /\ calls[c].pc = "idle"
    /\ \A b \in Calls : b < c => calls[b].pc # "idle"

\* the tables UpdateStatus can leave behind: it matches no row, or it
\* updates one of the tenant's latest rows
UpdateStatusOutcomes(table, tenant, status) ==
    IF LatestOf(table, tenant) = {}
    THEN {table}
    ELSE {UpdateStatus(table, tenant, status, pick) :
             pick \in LatestOf(table, tenant)}

\* time passes
Tick ==
    /\ clock < MaxClock + 1
    /\ clock' = clock + 1
    /\ UNCHANGED <<repo, files, objects, calls, dirs, parse, page>>

\* ---- POST /v1/{tenant}/webhook/security-scan
\* handleTriggerScan: the goroutine starts with UpdateStatus(tenant, "running")
HandleTriggerScan(c, tenant, tool) ==
    /\ Startable(c)
    /\ repo' \in UpdateStatusOutcomes(repo, tenant, StatusRunning)
    /\ LET cmd == TriggerScanCommand(tenant, tool) IN
       calls' = [calls EXCEPT ![c] =
                   [@ EXCEPT !.kind = "trigger", !.pc = "begin",
                             !.tenant = cmd.TenantID, !.mode = cmd.Mode,
                             !.scan = [NoScan EXCEPT
                                 !.TenantID = cmd.TenantID, !.Tool = cmd.Tool,
                                 !.Target = cmd.Target, !.Image = cmd.Image,
                                 !.Path = cmd.Path, !.Source = cmd.Source,
                                 !.CommitSHA = cmd.CommitSHA,
                                 !.Branch = cmd.Branch]]]
    /\ UNCHANGED <<files, objects, clock, dirs, parse, page>>

\* the scan TriggerScan saves first
InitialScan(id, cmd, now) ==
    [cmd EXCEPT !.ID = id, !.TriggeredAt = now, !.Status = StatusRunning,
                !.Counts = ZeroCounts, !.ArtifactURL = NoURL,
                !.RawFormat = "", !.DurationMS = 0]

\* a final scan saved under an identifier of its own
FinalScanNewID(base, res, url) ==
    [base EXCEPT !.ID = base.ID + MaxCalls,
                 !.Status = statusFromExit(res.ExitCode),
                 !.Counts = res.Counts, !.ArtifactURL = url,
                 !.RawFormat = res.RawFormat, !.DurationMS = res.DurationMS]

\* the scan TriggerScan and RetryScan save last
FinalScan(base, res, url) ==
    [base EXCEPT !.Status = statusFromExit(res.ExitCode),
                 !.Counts = res.Counts, !.ArtifactURL = url,
                 !.RawFormat = res.RawFormat, !.DurationMS = res.DurationMS]

\* the RunRequest of TriggerScan (mode from the command) and RetryScan ("")
RunRequest(scan, mode) ==
    [Tool |-> scan.Tool, Mode |-> mode, Image |-> scan.Image,
     Path |-> scan.Path, Target |-> scan.Target]

\* what a call keeps once TriggerScan / RetryScan has returned
Returned(call, ret, err) ==
    [IdleCall EXCEPT !.kind = call.kind, !.pc = "returned",
                     !.tenant = call.tenant, !.id = call.id,
                     !.ret = ret, !.err = err, !.invoked = call.invoked]

\* TriggerScan, up to the initial Save: mint the id, save the running row
T_Begin(c) ==
    /\ calls[c].pc = "begin"
    /\ LET id == c
           initial == InitialScan(id, calls[c].scan, clock)
       IN \E saved \in BOOLEAN :
            IF saved
            THEN /\ repo' = Save(repo, initial)
                 /\ calls' = [calls EXCEPT ![c] =
                       [@ EXCEPT !.pc = "run", !.id = id, !.scan = initial,
                                 !.req = RunRequest(initial, calls[c].mode)]]
            ELSE /\ repo' = repo
                 /\ calls' = [calls EXCEPT ![c] =
                       Returned([calls[c] EXCEPT !.id = id],
                                TriggerScanResult(id, StatusError), "save")]
    /\ UNCHANGED <<files, objects, clock, dirs, parse, page>>

\* ---- Runner.Run
\* Run, up to the start of the process: an unsupported tool returns at once
RunStart(c) ==
    /\ calls[c].pc = "run"
    /\ LET tool == calls[c].req.Tool
           home == IF tool = ToolZAP THEN ZapHome(clock) ELSE NoPath
       IN IF tool \notin Supported
          THEN /\ calls' = [calls EXCEPT ![c] =
                     [@ EXCEPT !.pc = "ran", !.rerr = ErrUnsupported,
                               !.res = NoResult, !.invoked = @ \cup {"runner"}]]
               /\ dirs' = MkdirAll(dirs, TempDir)
          ELSE /\ calls' = [calls EXCEPT ![c] =
                     [@ EXCEPT !.pc = "running", !.start = clock,
                               !.path = ArtifactPath(tool, clock),
                               !.home = home,
                               !.invoked = @ \cup {"runner"}]]
               /\ dirs' = IF tool = ToolZAP
                          THEN MkdirAll(MkdirAll(dirs, TempDir), home)
                          ELSE MkdirAll(dirs, TempDir)
    /\ UNCHANGED <<repo, files, objects, clock, parse, page>>

\* the process ends: it may have failed to start, exits with some code, and
\* may have written its report; Run then classifies, checks and parses
RunEnd(c) ==
    /\ calls[c].pc = "running"
    /\ \E spawned \in BOOLEAN, code \in ExitCodes, wrote \in BOOLEAN,
          content \in Artifacts, removable \in BOOLEAN :
         /\ ~spawned => (code = 0 /\ ~wrote)
         /\ ~wrote => (content.ok /\ content.counts = ZeroCounts /\ removable)
         /\ LET path == calls[c].path
                disk == IF wrote
                        THEN [p \in DOMAIN files \cup {path} |->
                                IF p = path
                                THEN [content |-> content, removable |-> removable]
                                ELSE files[p]]
                        ELSE files
                out  == RunOutcome(calls[c].req.Tool, path, spawned, code, disk,
                                   clock - calls[c].start)
            IN /\ files' = disk
               /\ calls' = [calls EXCEPT ![c] =
                     [@ EXCEPT !.pc = "ran", !.rerr = out.err, !.res = out.res,
                               !.start = 0, !.path = NoPath, !.home = NoPath,
                               !.proc = IF calls[c].kind = "run"
                                        THEN [spawned |-> spawned, code |-> code,
                                              wrote |-> wrote]
                                        ELSE NoProc]]
    /\ dirs' = IF calls[c].req.Tool = ToolZAP
               THEN RemoveAll(dirs, calls[c].home)
               ELSE dirs
    /\ UNCHANGED <<repo, objects, clock, parse, page>>

\* ---- the common tail of TriggerScan and RetryScan
\* Runner error: UpdateStatus(tenant, error), return the error
RunErr(c) ==
    /\ calls[c].pc = "ran"
    /\ calls[c].rerr # ""
    /\ repo' \in UpdateStatusOutcomes(repo, calls[c].tenant, StatusError)
    /\ calls' = [calls EXCEPT ![c] =
          Returned(calls[c], TriggerScanResult(calls[c].scan.ID, StatusError),
                   calls[c].rerr)]
    /\ UNCHANGED <<files, objects, clock, dirs, parse, page>>

\* Artifacts.UploadAndCleanup(res.LocalArtifactPath, key)
UploadStep(c) ==
    /\ calls[c].pc = "ran"
    /\ calls[c].rerr = ""
    /\ \E netOk \in BOOLEAN :
         LET path == calls[c].res.LocalArtifactPath
             key  == ArtifactKey(calls[c].tenant, calls[c].scan.Tool, path)
             up   == UploadAndCleanup(files, objects, path, key, netOk)
         IN /\ files' = up.disk
            /\ objects' = up.bucket
            /\ calls' = [calls EXCEPT ![c] =
                  [@ EXCEPT !.pc = IF up.err THEN "uperr" ELSE "save",
                            !.url = up.url,
                            !.invoked = @ \cup {"store"}]]
    /\ UNCHANGED <<repo, clock, dirs, parse, page>>

\* upload error: os.Remove(res.LocalArtifactPath), return the error
UploadErr(c) ==
    /\ calls[c].pc = "uperr"
    /\ files' = Remove(files, calls[c].res.LocalArtifactPath)
    /\ calls' = [calls EXCEPT ![c] =
          Returned(calls[c], TriggerScanResult(calls[c].scan.ID, StatusError),
                   "upload")]
    /\ UNCHANGED <<repo, objects, clock, dirs, parse, page>>

\* the final Save and the return
FinalSave(c) ==
    /\ calls[c].pc = "save"
    /\ LET scan == FinalScan(calls[c].scan, calls[c].res, calls[c].url)
       IN \E saved \in BOOLEAN :
            IF saved
            THEN /\ repo' = Save(repo, scan)
                 /\ calls' = [calls EXCEPT ![c] =
                       Returned(calls[c], ResultOf(scan), "")]
            ELSE /\ repo' = repo
                 /\ calls' = [calls EXCEPT ![c] =
                       Returned(calls[c],
                                TriggerScanResult(scan.ID, scan.Status), "save")]
    /\ UNCHANGED <<files, objects, clock, dirs, parse, page>>

T_RunErr(c)    == calls[c].kind = "trigger" /\ RunErr(c)
T_Upload(c)    == calls[c].kind = "trigger" /\ UploadStep(c)
T_UploadErr(c) == calls[c].kind = "trigger" /\ UploadErr(c)
T_Final(c)     == calls[c].kind = "trigger" /\ FinalSave(c)

\* ---- GET /v1/{tenant}/scans/{id}/retry
\* handleRetryScan: the goroutine starts with UpdateStatus(tenant, "running")
HandleRetryScan(c, tenant, id) ==
    /\ Startable(c)
    /\ repo' \in UpdateStatusOutcomes(repo, tenant, StatusRunning)
    /\ calls' = [calls EXCEPT ![c] =
                   [@ EXCEPT !.kind = "retry", !.pc = "get",
                             !.tenant = tenant, !.id = id]]
    /\ UNCHANGED <<files, objects, clock, dirs, parse, page>>

\* RetryScan, up to Repo.Get: a missing row or a failed query is returned
R_Get(c) ==
    /\ calls[c].pc = "get"
    /\ \E dbOk \in BOOLEAN :
         IF dbOk /\ Found(repo, calls[c].tenant, calls[c].id)
         THEN LET existing == Get(repo, calls[c].tenant, calls[c].id) IN
              calls' = [calls EXCEPT ![c] =
                  [@ EXCEPT !.pc = "mark", !.scan = existing,
                            !.req = RunRequest(existing, "")]]
         ELSE calls' = [calls EXCEPT ![c] =
                  Returned(calls[c], TriggerScanResult(0, ""),
                           IF dbOk THEN "not found" ELSE "db")]
    /\ UNCHANGED <<repo, files, objects, clock, dirs, parse, page>>

\* RetryScan: UpdateStatus(tenant, "running")
R_Mark(c) ==
    /\ calls[c].pc = "mark"
    /\ repo' \in UpdateStatusOutcomes(repo, calls[c].tenant, StatusRunning)
    /\ calls' = [calls EXCEPT ![c].pc = "run"]
    /\ UNCHANGED <<files, objects, clock, dirs, parse, page>>

R_RunErr(c)    == calls[c].kind = "retry" /\ RunErr(c)
R_Upload(c)    == calls[c].kind = "retry" /\ UploadStep(c)
R_UploadErr(c) == calls[c].kind = "retry" /\ UploadErr(c)
R_Final(c)     == calls[c].kind = "retry" /\ FinalSave(c)

\* ---- the end of both goroutines
\* MarkDone: UpdateResult(tenant, res.ID, success, res.ArtifactURL, res.Counts)
MarkDone(table, tenant, res) ==
    UpdateResult(table, tenant, res.ID, StatusSuccess, res.ArtifactURL, res.Counts)

\* on error UpdateStatus(tenant, "error")
H_Failed(c) ==
    /\ calls[c].pc = "returned"
    /\ calls[c].err # ""
    /\ repo' \in UpdateStatusOutcomes(repo, calls[c].tenant, StatusError)
    /\ calls' = [calls EXCEPT ![c] = DoneCall]
    /\ UNCHANGED <<files, objects, clock, dirs, parse, page>>

\* else MarkDone(tenant, result)
H_MarkDone(c) ==
    /\ calls[c].pc = "returned"
    /\ calls[c].err = ""
    /\ repo' = MarkDone(repo, calls[c].tenant, calls[c].ret)
    /\ calls' = [calls EXCEPT ![c] = DoneCall]
    /\ UNCHANGED <<files, objects, clock, dirs, parse, page>>

Next ==
    \/ Tick
    \/ \E c \in Calls, tenant \in Tenants, tool \in RequestTools :
          HandleTriggerScan(c, tenant, tool)
    \/ \E c \in Calls : T_Begin(c)
    \/ \E c \in Calls : RunStart(c)
    \/ \E c \in Calls : RunEnd(c)
    \/ \E c \in Calls : T_RunErr(c)
    \/ \E c \in Calls : T_Upload(c)
    \/ \E c \in Calls : T_UploadErr(c)
    \/ \E c \in Calls : T_Final(c)
    \/ \E c \in Calls, tenant \in Tenants, id \in Calls :
          HandleRetryScan(c, tenant, id)
    \/ \E c \in Calls : R_Get(c)
    \/ \E c \in Calls : R_Mark(c)
    \/ \E c \in Calls : R_RunErr(c)
    \/ \E c \in Calls : R_Upload(c)
    \/ \E c \in Calls : R_UploadErr(c)
    \/ \E c \in Calls : R_Final(c)
    \/ \E c \in Calls : H_Failed(c)
    \/ \E c \in Calls : H_MarkDone(c)

Spec == Init /\ [][Next]_vars

\* ---- the Runner on its own: Run called directly, for every tool
CallRun(c, tool) ==
    /\ Startable(c)
    /\ calls' = [calls EXCEPT ![c] =
          [@ EXCEPT !.kind = "run", !.pc = "run",
                    !.req = [Tool |-> tool, Mode |-> "", Image |-> "img",
                             Path |-> "src", Target |-> "url"]]]
    /\ UNCHANGED <<repo, files, objects, clock, dirs, parse, page>>

\* the caller of a direct Run drops the result
RunReturn(c) ==
    /\ calls[c].kind = "run"
    /\ calls[c].pc = "ran"
    /\ calls' = [calls EXCEPT ![c] = DoneCall]
    /\ UNCHANGED <<repo, files, objects, clock, dirs, parse, page>>

NextRun ==
    \/ Tick
    \/ \E c \in Calls, tool \in Tools : CallRun(c, tool)
    \/ \E c \in Calls : RunStart(c)
    \/ \E c \in Calls : RunEnd(c)
    \/ \E c \in Calls : RunReturn(c)

SpecRun == Init /\ [][NextRun]_vars

\* ---- retries of scans made earlier: the table holds two scans that ended
\* in a Runner error, the second triggered no earlier than the first
ErroredScan(id, tenant, tool, at) ==
    LET cmd == TriggerScanCommand(tenant, tool) IN
    [InitialScan(id, [NoScan EXCEPT
                         !.TenantID = cmd.TenantID, !.Tool = cmd.Tool,
                         !.Target = cmd.Target, !.Image = cmd.Image,
                         !.Path = cmd.Path, !.Source = cmd.Source,
                         !.CommitSHA = cmd.CommitSHA, !.Branch = cmd.Branch],
                 at)
        EXCEPT !.Status = StatusError]

InitRetry ==
    /\ \E tenant \in Tenants, t1 \in Times, t2 \in Times :
          /\ t1 <= t2
          /\ repo = Save(Save([i \in {} |-> 0],
                              ErroredScan(1, "acme", ToolTrivy, t1)),
                         ErroredScan(2, tenant, ToolTrivy, t2))
          /\ clock = t2
    /\ files = [p \in {} |-> 0]
    /\ objects = {}
    /\ calls = [c \in Calls |-> IdleCall]
    /\ dirs = {TempDir}
    /\ parse = NoParse
    /\ page = NoPage

NextRetry ==
    \/ Tick
    \/ \E c \in Calls, tenant \in Tenants, id \in Calls :
          HandleRetryScan(c, tenant, id)
    \/ \E c \in Calls : R_Get(c)
    \/ \E c \in Calls : R_Mark(c)
    \/ \E c \in Calls : RunStart(c)
    \/ \E c \in Calls : RunEnd(c)
    \/ \E c \in Calls : R_RunErr(c)
    \/ \E c \in Calls : R_Upload(c)
    \/ \E c \in Calls : R_UploadErr(c)
    \/ \E c \in Calls : R_Final(c)
    \/ \E c \in Calls : H_Failed(c)
    \/ \E c \in Calls : H_MarkDone(c)

SpecRetry == InitRetry /\ [][NextRetry]_vars

\* ---- paging through the scans of a tenant while no scan is added
InitPage ==
    /\ \E n \in 0..MaxRows :
         \E tn \in [1..n -> Tenants], at \in [1..n -> PageTimes] :
            repo = [i \in 1..n |-> Row(ErroredScan(i, tn[i], ToolTrivy, at[i]))]
    /\ \E tenant \in Tenants, limit \in 0..MaxLimit :
         page = [NoPage EXCEPT !.pc = "first", !.tenant = tenant,
                               !.limit = limit]
    /\ files = [p \in {} |-> 0]
    /\ objects = {}
    /\ clock = 1
    /\ calls = [c \in Calls |-> IdleCall]
    /\ dirs = {}
    /\ parse = NoParse

\* GET /v1/{tenant}/scans/latest?limit=n
FirstPage ==
    /\ page.pc = "first"
    /\ \E list \in LatestPages(repo, page.tenant, page.limit) :
         page' = Respond(page, list)
    /\ UNCHANGED <<repo, files, objects, clock, calls, dirs, parse>>

\* GET /v1/{tenant}/scans/latest?limit=n&cursor_time=..&cursor_id=..
FollowCursor ==
    /\ page.pc = "next"
    /\ page' = Respond(page, Cursor(repo, page.tenant,
                                    ParseRFC3339(page.cursor_time),
                                    page.cursor_id, page.limit))
    /\ UNCHANGED <<repo, files, objects, clock, calls, dirs, parse>>

NextPaging ==
    \/ FirstPage
    \/ FollowCursor

SpecPage == InitPage /\ [][NextPaging]_vars

\* ---- the normalizer on its own: a report is read and its counts returned
InitParse ==
    /\ repo = [i \in {} |-> 0]
    /\ files = [p \in {} |-> 0]
    /\ objects = {}
    /\ clock = 1
    /\ calls = [c \in Calls |-> IdleCall]
    /\ dirs = {}
    /\ page = NoPage
    /\ \/ \E n \in 0..MaxMarkers : \E html \in [1..n -> ZapMarkers] :
             parse = [NoParse EXCEPT !.parser = ToolZAP, !.input = html]
       \/ \E n \in 0..MaxResults :
             \E rs \in [1..n -> SarifResults \cup {SarifBadResult}] :
                \E k \in 0..n :
                   parse = [NoParse EXCEPT !.parser = ToolTrivy,
                                           !.input = SarifDoc(rs, k)]
       \/ \E n \in 0..MaxLines : \E lines \in [1..n -> NucleiLines] :
             parse = [NoParse EXCEPT !.parser = ToolNuclei, !.input = lines]
       \/ \E n \in 0..MaxResults : \E arr \in [1..n -> GitleaksElements] :
             parse = [NoParse EXCEPT !.parser = ToolGitleaks, !.input = arr]
       \/ \E v \in SQLMapArrays, r \in SQLMapArrays :
             \E its \in [1..r.len -> SQLMapItems] :
                parse = [NoParse EXCEPT !.parser = ToolSQLMap,
                            !.input = [vulnerabilities |-> v, results |-> r,
                                       items |-> its]]
       \/ \E tool \in Tools, unreadable \in BOOLEAN :
             parse = [NoParse EXCEPT !.parser = tool,
                                     !.readable = ~unreadable,
                                     !.wellFormed = unreadable]

\* ParseSeverityCounts(tool, path) on the report
Parse ==
    /\ ~parse.done
    /\ LET out == ParseReport(parse.parser, parse) IN
       parse' = [parse EXCEPT !.counts = out.counts, !.err = out.err,
                              !.done = TRUE]
    /\ UNCHANGED <<repo, files, objects, clock, calls, dirs, page>>

NextParse == Parse

SpecParse == InitParse /\ [][NextParse]_vars

\* ------------------------------------------------------------------ claims
\* the step in which call c returns from TriggerScan / RetryScan
Returns(c) ==
    /\ calls[c].kind \in {"trigger", "retry"}
    /\ calls[c].pc # "returned"
    /\ calls'[c].pc = "returned"

\* the row of the scan call c works on exists for its tenant
HasRow(table, call) ==
    /\ call.id \in DOMAIN table
    /\ table[call.id].tenant_id = call.tenant

\* C1: whenever a TriggerScan or RetryScan call whose record exists returns,
\* on any return path, the persisted status of its record is success, failed
\* or error, never running.
C1_TerminalOnReturn ==
    [][\A c \in Calls :
          (Returns(c) /\ calls[c].pc \in {"ran", "uperr", "save"}
                      /\ HasRow(repo', calls'[c]))
              => repo'[calls'[c].id].status \in Terminal]_vars

\* a step of the RetryScan call c on the row i
RetryStepOn(c, i) ==
    /\ calls[c].kind = "retry"
    /\ calls[c].pc \in {"mark", "ran", "save"}
    /\ calls[c].id = i
    /\ calls[c].tenant = repo[i].tenant_id
    /\ calls'[c] # calls[c]

\* C2: a status only moves from running to success, failed or error, and a
\* terminal status is changed by nothing but a RetryScan of that same scan.
C2_MonotonicTerminal ==
    [][\A i \in DOMAIN repo :
          repo'[i].status # repo[i].status
              => \/ repo[i].status = StatusRunning /\ repo'[i].status \in Terminal
                 \/ \E c \in Calls : RetryStepOn(c, i)]_vars

\* the step in which call c handles a Runner error
HandlesRunErr(c) ==
    /\ calls[c].kind \in {"trigger", "retry"}
    /\ calls[c].pc = "ran"
    /\ calls[c].rerr # ""
    /\ calls'[c].pc = "returned"

\* C3: on a Runner error the record moved to error is the one with the
\* call's own identifier (no other row changes, whatever other calls of the
\* tenant are in flight), and the error is returned.
C3_RunErrorOnOwnRecord ==
    [][\A c \in Calls :
          HandlesRunErr(c)
              => /\ calls'[c].err # ""
                 /\ repo'[calls[c].id].status = StatusError
                 /\ \A i \in DOMAIN repo :
                       i # calls[c].id => repo'[i] = repo[i]]_vars

\* the step in which call c does its final Save successfully
SavesFinal(c) ==
    /\ calls[c].kind \in {"trigger", "retry"}
    /\ calls[c].pc = "save"
    /\ calls'[c].pc = "returned"
    /\ calls'[c].err = ""

\* C4: trivy exiting with code 1 and a well-formed artifact is persisted by
\* TriggerScan as success, with the counts parsed from the artifact.
C4_TrivyFindingsIsSuccess ==
    [][\A c \in Calls :
          (/\ SavesFinal(c)
           /\ calls[c].kind = "trigger"
           /\ calls[c].req.Tool = ToolTrivy
           /\ calls[c].res.ExitCode = 1
           /\ calls[c].res.Counts = SeverityCounts(1, 2, 0, 0, 3))
              => /\ repo'[calls[c].id].status = StatusSuccess
                 /\ repo'[calls[c].id].counts = SeverityCounts(1, 2, 0, 0, 3)]_vars

\* C6: when the exit code is accepted but the artifact file is missing, Run
\* returns an error, the scan's persisted status ends as error or failed and
\* neither counts nor an artifact URL of that attempt are written.
C6_MissingArtifactEndsError ==
    [][\A c \in Calls :
          (HandlesRunErr(c) /\ calls[c].rerr = ErrNoOutput)
              => /\ repo'[calls[c].id].status \in {StatusError, StatusFailed}
                 /\ repo'[calls[c].id].counts = repo[calls[c].id].counts
                 /\ repo'[calls[c].id].artifact_url = repo[calls[c].id].artifact_url]_vars

\* the exit-code table: tool -> its "findings, not failure" codes
FindingsCodes(tool) ==
    IF tool \in {ToolTrivy, ToolNuclei} THEN {1}
    ELSE IF tool = ToolZAP THEN {2}
    ELSE {}

\* a direct Run of a supported tool has returned
RunDone(c) ==
    /\ calls[c].kind = "run"
    /\ calls[c].pc = "ran"
    /\ calls[c].req.Tool \in Supported

\* C5: Run returns without error only if the process exited with 0 or with
\* the tool's findings code; any other exit code, and a process that did not
\* start, make it return the run error.
C5_ExitCodeTable ==
    \A c \in Calls :
        RunDone(c) =>
            LET p  == calls[c].proc
                ok == p.spawned /\ (p.code = 0 \/ p.code \in FindingsCodes(calls[c].req.Tool))
            IN /\ calls[c].rerr = "" => ok
               /\ ~ok => calls[c].rerr = ErrRun

C5_Witness ==
    \E c \in Calls :
        /\ RunDone(c)
        /\ calls[c].req.Tool = ToolZAP
        /\ calls[c].proc.code = 2
        /\ calls[c].rerr = ""
        /\ calls[c].res.ExitCode = 2

\* C7: RetryScan of an identifier with no row for the tenant returns an error
\* from Get, uses neither the Runner nor the ArtifactStore, and changes no
\* row, file or object.
C7_RetryNotFound ==
    [][\A c \in Calls :
          (/\ calls[c].kind = "retry"
           /\ calls[c].pc = "get"
           /\ calls'[c] # calls[c]
           /\ ~HasRow(repo, calls[c]))
              => /\ calls'[c].pc = "returned"
                 /\ calls'[c].err \in {"not found", "db"}
                 /\ calls'[c].invoked = {}
                 /\ repo' = repo /\ files' = files /\ objects' = objects]_vars

\* a retry of another tenant's scan came back not found
C7_Witness ==
    \E c \in Calls :
        /\ calls[c].kind = "retry"
        /\ calls[c].pc = "returned"
        /\ calls[c].err = "not found"
        /\ calls[c].invoked = {}
        /\ calls[c].id \in DOMAIN repo

\* C8: while the Runner of a TriggerScan is invoked or executing, the row
\* saved under the minted id is there for Get(tenant, id); when the initial
\* Save fails the call returns its error having used neither the Runner nor
\* the ArtifactStore.
C8_SavedBeforeRun ==
    /\ [](\A c \in Calls :
            (calls[c].kind = "trigger" /\ calls[c].pc \in {"run", "running"})
                => HasRow(repo, calls[c]))
    /\ [][\A c \in Calls :
            (calls[c].pc = "begin" /\ calls'[c] # calls[c])
                => \/ /\ calls'[c].pc = "run"
                      /\ HasRow(repo', calls'[c])
                      /\ repo'[calls'[c].id].status = StatusRunning
                   \/ /\ calls'[c].pc = "returned"
                      /\ calls'[c].err # ""
                      /\ calls'[c].invoked = {}
                      /\ repo' = repo]_vars

C8_Witness ==
    \E c \in Calls :
        /\ calls[c].kind = "trigger"
        /\ calls[c].pc = "running"
        /\ HasRow(repo, calls[c])

Uploads(c) ==
    /\ calls[c].pc = "ran"
    /\ calls'[c].pc \in {"save", "uperr"}

\* C10 as stated: UploadAndCleanup removes the local artifact after a
\* successful upload and also when the upload fails (whenever the file can be
\* removed).
C10_RemovedOnBothPaths ==
    [][\A c \in Calls :
          Uploads(c) =>
              LET p == calls[c].res.LocalArtifactPath IN
              (p \in DOMAIN files /\ files[p].removable) => p \notin DOMAIN files']_vars

\* C10 amended: UploadAndCleanup removes the local artifact only after a
\* successful upload; when the upload fails it returns the error and leaves
\* the files as they were; a removal that fails is not returned as an error.
C10_RemovedAfterUploadOnly ==
    [][\A c \in Calls :
          Uploads(c) =>
              LET p   == calls[c].res.LocalArtifactPath
                  key == ArtifactKey(calls[c].tenant, calls[c].scan.Tool, p)
              IN IF calls'[c].pc = "save"
                 THEN /\ key \in objects'
                      /\ calls'[c].url # NoURL
                      /\ files[p].removable => p \notin DOMAIN files'
                      /\ ~files[p].removable => files' = files
                 ELSE /\ files' = files
                      /\ objects' = objects
                      /\ calls'[c].url = NoURL]_vars

\* the upload failed and the artifact, though removable, is still on disk
C10_Witness ==
    \E c \in Calls :
        /\ calls[c].pc = "uperr"
        /\ calls[c].res.LocalArtifactPath \in DOMAIN files
        /\ files[calls[c].res.LocalArtifactPath].removable

\* C11: RetryScan calls the Runner with the tool, target, image and path the
\* TriggerScan of that scan called it with, for every tool, the secret
\* scanner (whose input is the path) included.
C11_RetrySameInputs ==
    \A c \in Calls :
        (/\ calls[c].kind = "retry"
         /\ calls[c].pc = "run"
         /\ calls[c].req.Tool \in Supported)
            => LET cmd  == TriggerScanCommand(calls[c].tenant, calls[c].req.Tool)
                   orig == RunRequest(InitialScan(calls[c].id,
                                 [NoScan EXCEPT !.TenantID = cmd.TenantID,
                                     !.Tool = cmd.Tool, !.Target = cmd.Target,
                                     !.Image = cmd.Image, !.Path = cmd.Path],
                                 1), cmd.Mode)
               IN /\ calls[c].req.Tool = orig.Tool
                  /\ calls[c].req.Target = orig.Target
                  /\ calls[c].req.Image = orig.Image
                  /\ calls[c].req.Path = orig.Path

\* the columns of a row a retry must leave alone
Identity(r) ==
    <<r.id, r.tenant_id, r.triggered_at, r.tool, r.target, r.image,
      r.source, r.commit_sha, r.branch>>

\* C12: no step of a RetryScan (successful or not) adds or removes a row or
\* changes a row's identifier, tenant, trigger time, tool, target, image,
\* source, commit or branch.
C12_RetryInPlace ==
    [][\A c \in Calls :
          (calls[c].kind = "retry" /\ calls'[c] # calls[c])
              => /\ DOMAIN repo' = DOMAIN repo
                 /\ \A i \in DOMAIN repo :
                       Identity(repo'[i]) = Identity(repo[i])]_vars

\* a retry made later than the trigger has saved its result on the row
C12_Witness ==
    \E c \in Calls :
        /\ calls[c].kind = "retry"
        /\ calls[c].pc = "returned"
        /\ calls[c].err = ""
        /\ repo[calls[c].id].triggered_at = 1
        /\ repo[calls[c].id].duration_ms = 1
        /\ repo[calls[c].id].counts = SeverityCounts(1, 2, 0, 0, 3)
        /\ Cardinality(DOMAIN repo) = 1

\* C13: the artifact URL and the counts of a row are always written together
\* and from one attempt: by the final Save, with the URL of the call's upload
\* and the counts of its RunResult, or by MarkDone, with the pair that call
\* returned; a row without URL has no counts.
C13_WrittenTogether ==
    /\ [](\A i \in DOMAIN repo :
            repo[i].artifact_url = NoURL => repo[i].counts = ZeroCounts)
    /\ [](\A c \in Calls :
            calls[c].pc = "save" =>
                calls[c].url = URLOf(ArtifactKey(calls[c].tenant, calls[c].scan.Tool,
                                                 calls[c].res.LocalArtifactPath)))
    /\ [][\A i \in DOMAIN repo :
            (\/ repo'[i].artifact_url # repo[i].artifact_url
             \/ repo'[i].counts # repo[i].counts)
                => \E c \in Calls :
                      /\ calls[c].id = i
                      /\ calls'[c] # calls[c]
                      /\ \/ /\ calls[c].pc = "save"
                            /\ repo'[i].artifact_url = calls[c].url
                            /\ repo'[i].counts = calls[c].res.Counts
                            /\ calls'[c].ret.ArtifactURL = calls[c].url
                            /\ calls'[c].ret.Counts = calls[c].res.Counts
                         \/ /\ calls[c].pc = "returned"
                            /\ calls[c].err = ""
                            /\ repo'[i].artifact_url = calls[c].ret.ArtifactURL
                            /\ repo'[i].counts = calls[c].ret.Counts]_vars

\* two attempts on one scan: the first has returned and its MarkDone is still
\* to come, while the row holds the URL and counts of the other attempt
C13_Witness ==
    \E c, b \in Calls :
        /\ c # b
        /\ calls[b].kind = "retry"
        /\ calls[b].id = calls[c].id
        /\ calls[c].pc = "returned" /\ calls[c].err = ""
        /\ calls[b].pc = "returned" /\ calls[b].err = ""
        /\ repo[calls[c].id].artifact_url = calls[b].ret.ArtifactURL
        /\ repo[calls[c].id].artifact_url # calls[c].ret.ArtifactURL
        /\ repo[calls[c].id].counts # calls[c].ret.Counts

\* C14: a row with a non-empty artifact URL has status success.
C14_URLOnlyOnSuccess ==
    \A i \in DOMAIN repo :
        repo[i].artifact_url # NoURL => repo[i].status = StatusSuccess

\* C15: there is one row per identifier; the initial Save of a TriggerScan
\* adds exactly one row, under an identifier no row had, and changes no other
\* row; the final Save adds none and updates that same row; no other step
\* adds a row.
C15_OneRowPerID ==
    /\ [](\A i \in DOMAIN repo : repo[i].id = i)
    /\ [][\A c \in Calls :
            (calls[c].pc = "begin" /\ calls'[c].pc = "run")
                => /\ calls'[c].id \notin DOMAIN repo
                   /\ DOMAIN repo' = DOMAIN repo \cup {calls'[c].id}
                   /\ \A i \in DOMAIN repo : repo'[i] = repo[i]]_vars
    /\ [][\A c \in Calls :
            (SavesFinal(c) /\ calls[c].kind = "trigger")
                => /\ DOMAIN repo' = DOMAIN repo
                   /\ repo'[calls[c].id].status = statusFromExit(calls[c].res.ExitCode)
                   /\ repo'[calls[c].id].artifact_url = calls[c].url]_vars
    /\ [][DOMAIN repo' # DOMAIN repo
            => \E c \in Calls : calls[c].pc = "begin" /\ calls'[c].pc = "run"]_vars

\* two TriggerScans have made two rows and one has done its final Save
C15_Witness ==
    /\ Cardinality(DOMAIN repo) = 2
    /\ \E c \in Calls :
          /\ calls[c].kind = "trigger"
          /\ calls[c].pc = "returned"
          /\ calls[c].err = ""
          /\ repo[calls[c].id].artifact_url = calls[c].ret.ArtifactURL

\* the tenant a step of call c is made for
TenantOf(c) ==
    IF calls[c].tenant # "" THEN calls[c].tenant ELSE calls'[c].tenant

RunReturns(c) ==
    /\ calls[c].pc = "running"
    /\ calls'[c].pc = "ran"

C18_UnsupportedNoEffects ==
    [][\A c \in Calls :
          (/\ calls[c].pc = "run"
           /\ calls'[c] # calls[c]
           /\ calls[c].req.Tool \notin Supported)
              => /\ calls'[c].pc = "ran"
                 /\ calls'[c].rerr = ErrUnsupported
                 /\ files' = files
                 /\ dirs' = dirs]_vars

\* the counts of the markers of one kind, informational and info being low
ZapCountsBy(html, kind) ==
    LET N(levels) == Cardinality({i \in DOMAIN html :
                        html[i].kind = kind /\ ToLower(html[i].level) \in levels})
        h == N({"high"})
        m == N({"medium"})
        l == N({"low", "informational", "info"})
    IN SeverityCounts(0, h, m, l, h + m + l)

\* C19: the HTML parser returns the counts of the first heuristic with a
\* nonzero total: the "risk: {level}" labels, else the class markers alone,
\* else the "risk level: {level}" texts alone.
C19_FirstNonzeroHeuristic ==
    (parse.done /\ parse.parser = ToolZAP /\ ~parse.err) =>
        parse.counts =
            IF ZapCountsBy(parse.input, "label").total # 0
            THEN ZapCountsBy(parse.input, "label")
            ELSE IF ZapCountsBy(parse.input, "class").total # 0
            THEN ZapCountsBy(parse.input, "class")
            ELSE ZapCountsBy(parse.input, "text")

\* the results of a SARIF document, as a set of positions
SarifPositions(doc) ==
    {x \in (DOMAIN doc) \X (1..MaxResults) : x[2] \in DOMAIN doc[x[1]]}

\* the severity the statement gives a result
StatedSeverity(r) ==
    IF r.properties.severity.isText THEN ToLower(r.properties.severity.str)
    ELSE IF r.properties.Severity.isText THEN ToLower(r.properties.Severity.str)
    ELSE LevelSeverity(ToLower(r.level))

\* C20: every result of a structured report adds one to total; its severity
\* is the lower-cased "severity" or "Severity" property when either is there
\* as text, and only otherwise the one of its level; it adds one to the
\* bucket of that severity, if there is one.
C20_SarifSeverity ==
    (parse.done /\ parse.parser = ToolTrivy /\ ~parse.err) =>
        LET doc == parse.input
            N(sev) == Cardinality({x \in SarifPositions(doc) :
                          StatedSeverity(doc[x[1]][x[2]]) = sev})
        IN parse.counts =
              SeverityCounts(N("critical"), N("high"), N("medium"), N("low"),
                             Cardinality(SarifPositions(doc)))

\* the severities that have a bucket, and the names that fall into low
Classified == {"critical", "high", "medium", "low"}
LowNames == {"info", "informational"}

\* the lines of a line-delimited report that are of one of the kinds
LinesOf(lines, kinds) == {i \in DOMAIN lines : lines[i].kind \in kinds}

\* C21: in a line-delimited JSON report every non-empty line adds one to
\* total, whether or not its severity is recognized; critical, high, medium
\* and low add one to the bucket of that name, info and informational add
\* one to low.  Stated for the reports all of whose non-empty lines are JSON
\* findings.
C21_EveryLineCounted ==
    (/\ parse.done
     /\ parse.parser = ToolNuclei
     /\ parse.readable
     /\ LinesOf(parse.input, {"malformed"}) = {}) =>
        LET lines == parse.input
            N(sevs) == Cardinality({i \in DOMAIN lines :
                           /\ lines[i].kind # "blank"
                           /\ ToLower(lines[i].severity) \in sevs})
        IN parse.counts =
              SeverityCounts(N({"critical"}), N({"high"}), N({"medium"}),
                             N({"low"} \cup LowNames),
                             Cardinality(DOMAIN lines \ LinesOf(lines, {"blank"})))

\* the sum of the four buckets
BucketSum(c) == c.critical + c.high + c.medium + c.low

\* the entries a parser counts without putting them into a bucket
Unclassified(tool, input) ==
    IF tool = ToolNuclei
    THEN Cardinality({i \in LinesOf(input, {"finding"}) :
             ToLower(input[i].severity) \notin Classified \cup LowNames})
    ELSE IF tool = ToolTrivy
    THEN Cardinality({x \in SarifPositions(input) :
             SeverityOf(input[x[1]][x[2]]) \notin Classified})
    ELSE 0

\* C22: the counts ParseSeverityCounts returns are never negative and total
\* is at least the sum of the buckets; where the format classifies severity,
\* total exceeds the sum by the number of the entries without a classified
\* severity; for the flat array of the secret scanner the buckets are 0 and
\* total is the length of the array.
C22_CountsInvariant ==
    parse.done =>
        LET c == parse.counts IN
        /\ c.critical >= 0 /\ c.high >= 0 /\ c.medium >= 0 /\ c.low >= 0
        /\ c.total >= BucketSum(c)
        /\ parse.err => c = ZeroCounts
        /\ (~parse.err /\ parse.parser \in {ToolNuclei, ToolTrivy, ToolZAP, ToolSQLMap})
              => c.total - BucketSum(c) = Unclassified(parse.parser, parse.input)
        /\ (~parse.err /\ parse.parser = ToolGitleaks)
              => /\ BucketSum(c) = 0
                 /\ c.total = Len(parse.input)
        /\ parse.parser \notin Supported => c = ZeroCounts

\* a secret scanner's array of two that was counted
C22_Witness ==
    /\ parse.done
    /\ ~parse.err
    /\ parse.parser = ToolGitleaks
    /\ Len(parse.input) = 2
    /\ parse.counts.total = 2

\* the report without the records that do not decode
WithoutMalformed(tool, input) ==
    IF tool = ToolNuclei
    THEN [i \in DOMAIN input |->
             IF input[i].kind = "malformed"
             THEN [kind |-> "blank", severity |-> ""] ELSE input[i]]
    ELSE IF tool = ToolTrivy
    THEN [r \in DOMAIN input |-> SelectSeq(input[r], LAMBDA x : x.valid)]
    ELSE IF tool = ToolGitleaks
    THEN SelectSeq(input, LAMBDA x : x.kind = "object")
    ELSE input

\* C23: a parser returns an error for a file it cannot read and for a
\* document whose top level is malformed; a malformed record inside a
\* report of many records (a line, a result, an element of the array) is
\* passed over, and the other records are counted without error.  Stated for
\* the reports no line of which is beyond the scanner's buffer.
C23_MalformedRecordSkipped ==
    (/\ parse.done
     /\ parse.parser \in {ToolNuclei, ToolTrivy, ToolGitleaks}
     /\ ~(parse.parser = ToolNuclei /\ ScanFails(parse.input))) =>
        IF ~parse.readable \/ ~parse.wellFormed
        THEN parse.err
        ELSE /\ ~parse.err
             /\ parse.counts =
                  ParseReport(parse.parser,
                      [parse EXCEPT !.input =
                          WithoutMalformed(parse.parser, parse.input)]).counts

\* C24: RetryScan marks the record it retries as running before it invokes
\* the Runner, whatever other scans the tenant has: after the step that marks,
\* the record with the retried id has status running.
C24_RetriedRecordRunning ==
    [][\A c \in Calls :
          (/\ calls[c].kind = "retry"
           /\ calls[c].pc = "mark"
           /\ calls'[c].pc = "run")
              => repo'[calls[c].id].status = StatusRunning]_vars

\* the file is gone after a removal, unless the removal of it fails
Gone(before, after, path) ==
    \/ path \notin DOMAIN after
    \/ path \in DOMAIN before /\ ~before[path].removable

C26_ReturnedStatusPersisted ==
    [][\A c \in Calls :
          (/\ Returns(c)
           /\ calls[c].pc \in {"ran", "uperr", "save"}
           /\ HasRow(repo', calls'[c])
           /\ calls'[c].ret.ID = calls'[c].id)
              => repo'[calls'[c].id].status = calls'[c].ret.Status]_vars

\* C27: MarkDone with the result of a TriggerScan or RetryScan that returned
\* without error leaves status, counts and artifact URL of the record as they
\* were, and changes no other record.
C27_MarkDoneChangesNothing ==
    [][\A c \in Calls :
          (/\ calls[c].kind \in {"trigger", "retry"}
           /\ calls[c].pc = "returned"
           /\ calls[c].err = ""
           /\ calls'[c].pc = "done")
              => repo' = repo]_vars

\* C28: two Run invocations under way at the same time use different
\* artifact paths, and different session directories when both run the
\* web-app scanner.
C28_DistinctPaths ==
    \A c \in Calls : \A b \in Calls \ {c} :
        (calls[c].pc = "running" /\ calls[b].pc = "running")
            => /\ calls[c].path # calls[b].path
               /\ (calls[c].home # NoPath /\ calls[b].home # NoPath)
                     => calls[c].home # calls[b].home

\* C29: a failure to parse an existing artifact does not fail the run: when
\* Run ends with the artifact there and malformed and the exit code accepted,
\* it returns no error and a result with zero counts; and the status of the
\* final scan is statusFromExit of the exit code, in the value returned and,
\* when the Save succeeds, in the record.
C29_ParseFailureNotFatal ==
    [][\A c \in Calls :
          /\ (/\ calls[c].pc = "running"
              /\ calls'[c].pc = "ran"
              /\ calls[c].req.Tool \in Supported
              /\ calls[c].path \in DOMAIN files'
              /\ ~files'[calls[c].path].content.ok
              /\ calls'[c].rerr # ErrRun)
                 => /\ calls'[c].rerr = ""
                    /\ calls'[c].res.Counts = ZeroCounts
                    /\ calls'[c].res.LocalArtifactPath = calls[c].path
          /\ (/\ calls[c].pc = "save"
              /\ calls'[c].pc = "returned")
                 => /\ calls'[c].ret.Status = statusFromExit(calls[c].res.ExitCode)
                    /\ calls'[c].err = ""
                          => repo'[calls[c].scan.ID].status
                                = statusFromExit(calls[c].res.ExitCode)]_vars

\* Run has returned a result with a findings exit code for a malformed
\* artifact that is still on disk
C29_Witness ==
    \E c \in Calls :
        /\ calls[c].kind = "trigger"
        /\ calls[c].pc = "ran"
        /\ calls[c].rerr = ""
        /\ calls[c].res.ExitCode = 1
        /\ calls[c].res.Counts = ZeroCounts
        /\ calls[c].res.LocalArtifactPath \in DOMAIN files
        /\ ~files[calls[c].res.LocalArtifactPath].content.ok

\* C30: paging through a tenant's scans, from the first page along every
\* next_cursor until a page is shorter than the limit, visits every scan of
\* the tenant exactly once, latest trigger time first, also when scans share
\* a trigger time or differ in the part below the second.
C30_PagingVisitsEachOnce ==
    page.pc = "end" =>
        LET ids == {i \in DOMAIN repo : repo[i].tenant_id = page.tenant} IN
        /\ Len(page.seen) = Cardinality(ids)
        /\ {page.seen[i] : i \in DOMAIN page.seen} = ids
        /\ \A i \in DOMAIN page.seen : \A j \in DOMAIN page.seen :
              i < j => repo[page.seen[i]].triggered_at
                          >= repo[page.seen[j]].triggered_at

====
